---- MODULE Spec2Model ----
(***************************************************************************)
(* CarMatch: the matcher of src/server.js (the static CARS catalog, the    *)
(* helpers pickYearForBudget and affordabilityScore, and the POST /search  *)
(* handler).                                                               *)
(*                                                                         *)
(* Numbers.  A JavaScript Number is modelled as a fixed-point integer in   *)
(* units of 1/Scale, so that fractional seat counts and budgets (4.5) are  *)
(* values of the model.  N(k) is the Number of the integer literal k.      *)
(* Strings.  A JavaScript string is a sequence of one-character strings,   *)
(* so that toLowerCase, Number(string) and String(number) are computed     *)
(* character by character.                                                 *)
(* The links field of a result (buildSearchLinks, pure string templating)  *)
(* is left out of the result records.                                      *)
(***************************************************************************)
EXTENDS Integers, Sequences, FiniteSets

VARIABLES pc, body, wantSeats, wantBudget, wantType, results, relaxed,
          fnPc, priceBands, yearsByBand, budget, fnYear, fnScore

vars == <<pc, body, wantSeats, wantBudget, wantType, results, relaxed,
          fnPc, priceBands, yearsByBand, budget, fnYear, fnScore>>

searchVars == <<pc, body, wantSeats, wantBudget, wantType, results, relaxed>>

fnVars == <<fnPc, priceBands, yearsByBand, budget, fnYear, fnScore>>

-----------------------------------------------------------------------------
(* Bounds of the model *)

\* resolution of the fixed-point Numbers: 1/Scale
Scale == 2

\* largest seat count (in whole seats) a request of the model carries
MaxSeatsIn == 8

\* longest synthetic priceBands / yearsByBand arrays
MaxBands == 3

\* number of price levels the synthetic priceBands are drawn from
PriceLevels == 4

-----------------------------------------------------------------------------
(* JavaScript values and coercions *)

N(k) == k * Scale

Undefined == [t |-> "undefined"]

Null == [t |-> "null"]

NaN == [t |-> "NaN"]

Bool(b) == [t |-> "boolean", v |-> b]

Num(x) == [t |-> "number", v |-> x]

Str(s) == [t |-> "string", v |-> s]

UpperChars == <<"A","B","C","D","E","F","G","H","I","J","K","L","M",
                "N","O","P","Q","R","S","T","U","V","W","X","Y","Z">>

LowerChars == <<"a","b","c","d","e","f","g","h","i","j","k","l","m",
                "n","o","p","q","r","s","t","u","v","w","x","y","z">>

DigitChars == <<"0","1","2","3","4","5","6","7","8","9">>

IsDigit(c) == \E i \in 1..10 : DigitChars[i] = c

DigitVal(c) == (CHOOSE i \in 1..10 : DigitChars[i] = c) - 1

LowerChar(c) ==
  IF \E i \in 1..26 : UpperChars[i] = c
  THEN LowerChars[CHOOSE i \in 1..26 : UpperChars[i] = c]
  ELSE c

\* String.prototype.toLowerCase
ToLowerCase(s) == [i \in 1..Len(s) |-> LowerChar(s[i])]

RECURSIVE TrimLeft(_)
TrimLeft(s) == IF s # <<>> /\ Head(s) = " " THEN TrimLeft(Tail(s)) ELSE s

RECURSIVE TrimRight(_)
TrimRight(s) ==
  IF s # <<>> /\ s[Len(s)] = " " THEN TrimRight(SubSeq(s, 1, Len(s) - 1)) ELSE s

RECURSIVE DecimalValue(_)
DecimalValue(s) ==
  IF s = <<>> THEN 0
  ELSE 10 * DecimalValue(SubSeq(s, 1, Len(s) - 1)) + DigitVal(s[Len(s)])

\* Number(string) for the strings of the model: white space is trimmed, the
\* empty string is 0, a run of decimal digits is its value, anything else NaN
StringToNumber(s) ==
  LET u == TrimRight(TrimLeft(s)) IN
  IF u = <<>> THEN Num(0)
  ELSE IF \A i \in 1..Len(u) : IsDigit(u[i]) THEN Num(N(DecimalValue(u)))
  ELSE NaN

\* Number(value)
ToNumber(x) ==
  CASE x.t = "undefined" -> NaN
    [] x.t = "null" -> Num(0)
    [] x.t = "boolean" -> IF x.v THEN Num(N(1)) ELSE Num(0)
    [] x.t = "number" -> x
    [] x.t = "NaN" -> NaN
    [] x.t = "string" -> StringToNumber(x.v)

\* the truthiness test of the || operator
Truthy(x) ==
  CASE x.t = "undefined" -> FALSE
    [] x.t = "null" -> FALSE
    [] x.t = "boolean" -> x.v
    [] x.t = "number" -> x.v # 0
    [] x.t = "NaN" -> FALSE
    [] x.t = "string" -> x.v # <<>>

RECURSIVE Digits(_)
Digits(n) ==
  IF n < 10 THEN <<DigitChars[n + 1]>>
  ELSE Append(Digits(n \div 10), DigitChars[(n % 10) + 1])

\* String(value); the Numbers given to it in the model are whole and >= 0
JSString(x) ==
  CASE x.t = "undefined" -> <<"u","n","d","e","f","i","n","e","d">>
    [] x.t = "null" -> <<"n","u","l","l">>
    [] x.t = "boolean" -> IF x.v THEN <<"t","r","u","e">> ELSE <<"f","a","l","s","e">>
    [] x.t = "number" -> Digits(x.v \div Scale)
    [] x.t = "NaN" -> <<"N","a","N">>
    [] x.t = "string" -> x.v

-----------------------------------------------------------------------------
(* The catalog *)

comfort == <<"c","o","m","f","o","r","t">>

sedan == <<"s","e","d","a","n">>

economy == <<"e","c","o","n","o","m","y">>

suv == <<"s","u","v">>

family == <<"f","a","m","i","l","y">>

minivan == <<"m","i","n","i","v","a","n">>

luxury == <<"l","u","x","u","r","y">>

electric == <<"e","l","e","c","t","r","i","c">>

sport == <<"s","p","o","r","t">>

roadster == <<"r","o","a","d","s","t","e","r">>

coupe == <<"c","o","u","p","e">>

Car(m, s, ty, pb, yb) ==
  [model |-> m, minSeats |-> s, types |-> ty, priceBands |-> pb, yearsByBand |-> yb]

CARS == <<
  Car("Toyota Camry", 5, <<comfort, sedan, economy>>, <<12000, 18000, 25000, 35000>>, <<2015, 2018, 2021, 2024>>),
  Car("Honda Accord", 5, <<comfort, sedan, economy>>, <<12000, 18000, 26000, 36000>>, <<2015, 2018, 2021, 2024>>),
  Car("Kia Telluride", 7, <<comfort, suv, family>>, <<26000, 33000, 42000, 55000>>, <<2020, 2021, 2022, 2024>>),
  Car("Honda Odyssey", 7, <<minivan, family, comfort>>, <<16000, 23000, 32000, 45000>>, <<2016, 2018, 2021, 2024>>),
  Car("Mercedes-Benz S-Class", 5, <<luxury, sedan>>, <<28000, 40000, 65000, 110000>>, <<2014, 2017, 2020, 2023>>),
  Car("BMW 7 Series", 5, <<luxury, sedan>>, <<22000, 35000, 55000, 100000>>, <<2014, 2017, 2020, 2023>>),
  Car("Lexus LS", 5, <<luxury, sedan, comfort>>, <<20000, 30000, 45000, 80000>>, <<2013, 2016, 2019, 2023>>),
  Car("Cadillac Escalade", 7, <<luxury, suv>>, <<30000, 45000, 70000, 110000>>, <<2015, 2018, 2021, 2024>>),
  Car("Tesla Model S", 5, <<luxury, electric, sedan>>, <<26000, 38000, 55000, 90000>>, <<2014, 2017, 2020, 2023>>),
  Car("Tesla Model 3", 5, <<electric, comfort, sedan>>, <<18000, 26000, 35000, 55000>>, <<2019, 2020, 2021, 2024>>),
  Car("Toyota RAV4", 5, <<suv, comfort, economy>>, <<12000, 17000, 26000, 38000>>, <<2015, 2017, 2020, 2023>>),
  Car("Mazda MX-5 Miata", 2, <<sport, roadster>>, <<12000, 18000, 26000, 36000>>, <<2014, 2016, 2019, 2023>>),
  Car("Porsche 911", 4, <<sport, luxury>>, <<45000, 70000, 110000, 180000>>, <<2009, 2014, 2017, 2022>>),
  Car("Chevrolet Corvette", 2, <<sport>>, <<35000, 50000, 70000, 120000>>, <<2014, 2017, 2020, 2023>>),
  Car("BMW M3", 5, <<sport, sedan>>, <<30000, 45000, 65000, 90000>>, <<2015, 2018, 2021, 2023>>),
  Car("Ford Mustang", 4, <<sport, coupe>>, <<15000, 22000, 32000, 50000>>, <<2015, 2017, 2020, 2023>>)
>>

\* the Numbers of an array of integer literals
NumSeq(s) == [i \in 1..Len(s) |-> N(s[i])]

\* Array.prototype.includes on an array of strings
Includes(arr, s) == \E i \in 1..Len(arr) : arr[i] = s

-----------------------------------------------------------------------------
(* pickYearForBudget and affordabilityScore *)

\* the for loop of pickYearForBudget from index i (1-based) downwards
RECURSIVE PickYearScan(_, _, _, _)
PickYearScan(pb, yb, b, i) ==
  IF i < 1 THEN yb[1]
  ELSE IF b >= pb[i] THEN yb[i]
  ELSE PickYearScan(pb, yb, b, i - 1)

\* mutant: the scan starts one band below the top
pickYearSkipTopBand(pb, yb, b) == PickYearScan(pb, yb, b, Len(pb) - 1)

pickYearForBudget(pb, yb, b) == PickYearScan(pb, yb, b, Len(pb))

\* mutant: the lower boundary of the range is exclusive
affordabilityScoreStrict(pb, b) ==
  LET minBand == pb[1]
      maxBand == pb[Len(pb)]
  IN IF b > minBand /\ b <= maxBand THEN 0
     ELSE IF b < minBand THEN minBand - b
     ELSE b - maxBand

affordabilityScore(pb, b) ==
  LET minBand == pb[1]
      maxBand == pb[Len(pb)]
  IN IF b >= minBand /\ b <= maxBand THEN 0
     ELSE IF b < minBand THEN minBand - b
     ELSE b - maxBand

-----------------------------------------------------------------------------
(* POST /search *)

\* mutant: ?? in place of ||, so that only NaN/absent is defaulted
CoerceSeatsNullish(seats) ==
  LET n == ToNumber(seats) IN IF n.t = "NaN" THEN N(4) ELSE n.v

\* const wantSeats = Number(seats) || 4
CoerceSeats(seats) ==
  LET n == ToNumber(seats) IN IF Truthy(n) THEN n.v ELSE N(4)

\* const wantBudget = Number(budget) || 20000
CoerceBudget(b) ==
  LET n == ToNumber(b) IN IF Truthy(n) THEN n.v ELSE N(20000)

\* const wantType = String(type || "").toLowerCase()
CoerceType(type) ==
  ToLowerCase(JSString(IF Truthy(type) THEN type ELSE Str(<<>>)))

\* first filter of the primary pass
SeatFilterPrimary(c, ws) ==
  \/ N(c.minSeats) >= ws
  \/ N(c.minSeats) = ws
  \/ N(c.minSeats) > ws - N(1)

\* mutant: a tag matches when the wanted type occurs inside it
TypeFilterSubstring(c, wt) ==
  \/ wt = <<>>
  \/ \E i \in 1..Len(c.types) :
       \E k \in 0..(Len(c.types[i]) - Len(wt)) :
         SubSeq(c.types[i], k + 1, k + Len(wt)) = wt

\* second filter of the primary pass
TypeFilter(c, wt) == wt = <<>> \/ Includes(c.types, wt)

\* filter of the relaxed pass
SeatFilterRelaxed(c, ws) == N(c.minSeats) >= ws

Max(a, b) == IF a >= b THEN a ELSE b

Min(a, b) == IF a <= b THEN a ELSE b

\* the score expression of the primary pass
PrimaryScore(c, ws, wb) ==
  affordabilityScore(NumSeq(c.priceBands), wb) + Max(0, ws - N(c.minSeats)) * 5000

\* mutant: the relaxed pass without its penalty
RelaxedScoreNoPenalty(c, ws, wb) ==
  affordabilityScore(NumSeq(c.priceBands), wb) + Max(0, ws - N(c.minSeats)) * 5000

\* the score expression of the relaxed pass
RelaxedScore(c, ws, wb) ==
  affordabilityScore(NumSeq(c.priceBands), wb) + Max(0, ws - N(c.minSeats)) * 5000
    + N(10000)

\* the object a .map callback returns (links left out)
Result(c, wb, sc) ==
  [model |-> c.model,
   year |-> pickYearForBudget(NumSeq(c.priceBands), c.yearsByBand, wb),
   seats |-> c.minSeats,
   typeMatches |-> c.types,
   score |-> sc]

\* mutant: descending comparator
CmpDescending(a, b) == b.score - a.score

\* the comparator (a, b) => a.score - b.score
Cmp(a, b) == a.score - b.score

\* mutant: x goes in front of the elements it ties with (an unstable sort)
RECURSIVE InsertBeforeEqual(_, _)
InsertBeforeEqual(s, x) ==
  IF s = <<>> THEN <<x>>
  ELSE IF x.score - Head(s).score <= 0 THEN <<x>> \o s
  ELSE <<Head(s)>> \o InsertBeforeEqual(Tail(s), x)

\* place x in the sorted sequence s, behind every element it does not
\* precede under Cmp
RECURSIVE Insert(_, _)
Insert(s, x) ==
  IF s = <<>> THEN <<x>>
  ELSE IF Cmp(x, Head(s)) < 0 THEN <<x>> \o s
  ELSE <<Head(s)>> \o Insert(Tail(s), x)

\* Array.prototype.sort with Cmp: a stable sort
RECURSIVE SortFrom(_, _)
SortFrom(sorted, rest) ==
  IF rest = <<>> THEN sorted ELSE SortFrom(Insert(sorted, Head(rest)), Tail(rest))

SortByScore(s) == SortFrom(<<>>, s)

\* .slice(0, 5)
Slice5(s) == SubSeq(s, 1, Min(5, Len(s)))

\* const matches = CARS.filter(..).filter(..).map(..).sort(..).slice(0, 5)
Matches(ws, wb, wt) ==
  LET f1 == SelectSeq(CARS, LAMBDA c : SeatFilterPrimary(c, ws))
      f2 == SelectSeq(f1, LAMBDA c : TypeFilter(c, wt))
      m == [i \in 1..Len(f2) |-> Result(f2[i], wb, PrimaryScore(f2[i], ws, wb))]
  IN Slice5(SortByScore(m))

\* const relaxed = CARS.filter(..).map(..).sort(..).slice(0, 5)
RelaxedMatches(ws, wb) ==
  LET f == SelectSeq(CARS, LAMBDA c : SeatFilterRelaxed(c, ws))
      m == [i \in 1..Len(f) |-> Result(f[i], wb, RelaxedScore(f[i], ws, wb))]
  IN Slice5(SortByScore(m))

\* mutant: the handler without the fallback
RespondNoFallback(ws, wb, wt) ==
  [results |-> Matches(ws, wb, wt), relaxed |-> FALSE]

\* the body of the handler after the coercions: the JSON it answers with
Respond(ws, wb, wt) ==
  LET matches == Matches(ws, wb, wt) IN
  IF Len(matches) = 0
  THEN [results |-> RelaxedMatches(ws, wb), relaxed |-> TRUE]
  ELSE [results |-> matches, relaxed |-> FALSE]

-----------------------------------------------------------------------------
(* Request bodies of the model *)

hovercar == <<"h","o","v","e","r","c","a","r">>

SeatsInputs ==
  {Undefined, Null, Bool(TRUE), Bool(FALSE)}
    \cup {Num(k) : k \in (0 - Scale)..N(MaxSeatsIn)}
    \cup {Str(<<>>), Str(<<"7">>), Str(<<" ","5"," ">>), Str(<<"a","b">>), Str(<<"0">>)}

BudgetInputs ==
  {Undefined, Null, Num(0), Str(<<"a">>), Str(<<"3","0","0","0","0">>)}
    \cup {Num(N(b)) : b \in {0 - 5000, 5000, 12000, 20000, 25000, 30000,
                              45000, 100000, 200000}}
    \cup {Num(N(15000) + 1)}

TypeInputs ==
  {Undefined, Null, Bool(FALSE), Bool(TRUE), Num(0), Num(N(5))}
    \cup {Str(s) : s \in {<<>>, luxury, <<"L","u","x","u","r","y">>,
                          <<"l","u","x">>, sport, <<" ","s","p","o","r","t">>,
                          <<"S","U","V">>, suv, coupe, roadster, minivan,
                          electric, hovercar}}

NoBody == [seats |-> Undefined, budget |-> Undefined, type |-> Undefined]

-----------------------------------------------------------------------------
(* The /search state machine: one request is handled in one step *)

SearchInit ==
  /\ pc = "idle"
  /\ body = NoBody
  /\ wantSeats = 0
  /\ wantBudget = 0
  /\ wantType = <<>>
  /\ results = <<>>
  /\ relaxed = FALSE

FnOff ==
  /\ fnPc = "off"
  /\ priceBands = <<>>
  /\ yearsByBand = <<>>
  /\ budget = 0
  /\ fnYear = 0
  /\ fnScore = 0

Init == SearchInit /\ FnOff

\* app.post("/search", (req, res) => { ... })
Search ==
  /\ pc = "idle"
  /\ \E s \in SeatsInputs, b \in BudgetInputs, ty \in TypeInputs :
       LET ws == CoerceSeats(s)
           wb == CoerceBudget(b)
           wt == CoerceType(ty)
           r == Respond(ws, wb, wt)
       IN /\ body' = [seats |-> s, budget |-> b, type |-> ty]
          /\ wantSeats' = ws
          /\ wantBudget' = wb
          /\ wantType' = wt
          /\ results' = r.results
          /\ relaxed' = r.relaxed
  /\ pc' = "responded"
  /\ UNCHANGED fnVars

\* the response is sent and the handler returns; its locals are gone
Finish ==
  /\ pc = "responded"
  /\ pc' = "idle"
  /\ body' = NoBody
  /\ wantSeats' = 0
  /\ wantBudget' = 0
  /\ wantType' = <<>>
  /\ results' = <<>>
  /\ relaxed' = FALSE
  /\ UNCHANGED fnVars

Next == Search \/ Finish

Spec == Init /\ [][Next]_vars

TypeOK ==
  /\ pc \in {"idle", "responded"}
  /\ relaxed \in BOOLEAN
  /\ Len(results) <= Len(CARS)

-----------------------------------------------------------------------------
(* The helpers on their own: Init draws the arguments, a step applies one *)

CatalogPrices == UNION {{CARS[i].priceBands[k] : k \in 1..4} : i \in 1..Len(CARS)}

\* strictly ascending arrays of 1..MaxBands prices of 1000, 2000, ...
SyntheticBands ==
  UNION {{NumSeq([i \in 1..n |-> 1000 * g[i]]) :
            g \in {h \in [1..n -> 1..PriceLevels] : \A i \in 1..(n - 1) : h[i] < h[i + 1]}}
           : n \in 1..MaxBands}

FnBudgets ==
  {N(p) + d : p \in CatalogPrices \cup {1000 * l : l \in 0..(PriceLevels + 1)},
              d \in {0 - 1, 0, 1}}

FnInit ==
  /\ fnPc = "args"
  /\ \/ \E i \in 1..Len(CARS) :
          /\ priceBands = NumSeq(CARS[i].priceBands)
          /\ yearsByBand = CARS[i].yearsByBand
     \/ /\ priceBands \in SyntheticBands
        /\ yearsByBand = [i \in 1..Len(priceBands) |-> 2010 + 3 * i]
  /\ budget \in FnBudgets
  /\ fnYear = 0
  /\ fnScore = 0

InitFn == SearchInit /\ FnInit

CallPickYear ==
  /\ fnPc = "args"
  /\ fnYear' = pickYearForBudget(priceBands, yearsByBand, budget)
  /\ fnPc' = "picked"
  /\ UNCHANGED <<priceBands, yearsByBand, budget, fnScore>>
  /\ UNCHANGED searchVars

CallAffordability ==
  /\ fnPc = "args"
  /\ fnScore' = affordabilityScore(priceBands, budget)
  /\ fnPc' = "scored"
  /\ UNCHANGED <<priceBands, yearsByBand, budget, fnYear>>
  /\ UNCHANGED searchVars

NextFn == CallPickYear \/ CallAffordability

SpecFn == InitFn /\ [][NextFn]_vars

-----------------------------------------------------------------------------
(* Vocabulary of the properties *)

CatalogIndex(m) == CHOOSE i \in 1..Len(CARS) : CARS[i].model = m

RecordOf(r) == CARS[CatalogIndex(r.model)]

Returned(i) == \E k \in 1..Len(results) : results[k].model = CARS[i].model

\* the records that pass the filters of the pass that produced the response
Survives(c) ==
  IF relaxed THEN SeatFilterRelaxed(c, wantSeats)
  ELSE SeatFilterPrimary(c, wantSeats) /\ TypeFilter(c, wantType)

Survivors == {i \in 1..Len(CARS) : Survives(CARS[i])}

\* the score the pass that produced the response gives a record
PassScore(c) ==
  IF relaxed THEN RelaxedScore(c, wantSeats, wantBudget)
  ELSE PrimaryScore(c, wantSeats, wantBudget)

SetMin(S) == CHOOSE x \in S : \A y \in S : x <= y

SetMax(S) == CHOOSE x \in S : \A y \in S : x >= y

Elems(s) == {s[i] : i \in 1..Len(s)}

\* s is white space, one or more decimal digits, white space
IsNumeral(s) ==
  \E i \in 1..Len(s) : \E j \in i..Len(s) :
    \A k \in 1..Len(s) : IF k >= i /\ k <= j THEN IsDigit(s[k]) ELSE s[k] = " "

\* a seats or budget field that is absent, not a number, or zero/empty
NumberFieldDefaults(x) ==
  \/ x.t \in {"undefined", "null", "NaN"}
  \/ x.t = "boolean" /\ ~x.v
  \/ x.t = "number" /\ x.v = 0
  \/ x.t = "string" /\ (~IsNumeral(x.v) \/ \A k \in 1..Len(x.v) : x.v[k] \in {" ", "0"})

\* a type field that is absent or empty
TypeFieldDefaults(x) ==
  \/ x.t \in {"undefined", "null", "NaN"}
  \/ x.t = "boolean" /\ ~x.v
  \/ x.t = "number" /\ x.v = 0
  \/ x.t = "string" /\ x.v = <<>>

\* a and b are the same string up to the case of letters
EqualIgnoringCase(a, b) ==
  /\ Len(a) = Len(b)
  /\ \A k \in 1..Len(a) :
       \/ a[k] = b[k]
       \/ \E l \in 1..26 : {a[k], b[k]} = {UpperChars[l], LowerChars[l]}

Models(rs) == [k \in 1..Len(rs) |-> rs[k].model]

-----------------------------------------------------------------------------
(* Properties *)

\* C1: for every coerced seats value, the three-way seat condition of the
\* primary pass keeps exactly the records with minSeats >= wantSeats, the
\* records the relaxed pass's predicate keeps.
C1_SeatFiltersAgree ==
  pc = "responded" =>
    \A i \in 1..Len(CARS) :
      SeatFilterPrimary(CARS[i], wantSeats) <=> (N(CARS[i].minSeats) >= wantSeats)

C3_RelaxedPenalty ==
  (pc = "responded" /\ relaxed) =>
    \A k \in 1..Len(results) :
      results[k].score =
        PrimaryScore(RecordOf(results[k]), wantSeats, wantBudget) + N(10000)

C3_Witness ==
  pc = "responded" /\ relaxed /\ wantType = hovercar /\ Len(results) = 5

\* C4: the results are at most 5, sorted by non-decreasing score, and the top
\* of the ranking of the records that survived the filters of the pass that
\* produced them: no survivor left out scores below a returned result.
C4_SortedTopFive ==
  pc = "responded" =>
    /\ Len(results) <= 5
    /\ \A k \in 1..(Len(results) - 1) : results[k].score <= results[k + 1].score
    /\ \A k \in 1..Len(results) :
         /\ CatalogIndex(results[k].model) \in Survivors
         /\ results[k].score = PassScore(RecordOf(results[k]))
    /\ Len(results) = Min(5, Cardinality(Survivors))
    /\ \A i \in Survivors :
         ~Returned(i) =>
           \A k \in 1..Len(results) : PassScore(CARS[i]) >= results[k].score

C4_Witness ==
  /\ pc = "responded"
  /\ Len(results) = 5
  /\ results[1].score < results[5].score
  /\ \E i \in Survivors : ~Returned(i) /\ PassScore(CARS[i]) > results[5].score

\* C5: pickYearForBudget returns yearsByBand[i] for the largest i with
\* priceBands[i] <= budget, yearsByBand[0] when the budget is below
\* priceBands[0], and so always an element of yearsByBand.
C5_PickYear ==
  fnPc = "picked" =>
    LET fit == {i \in 1..Len(priceBands) : priceBands[i] <= budget} IN
    /\ fit # {} => fnYear = yearsByBand[SetMax(fit)]
    /\ budget < priceBands[1] => fnYear = yearsByBand[1]
    /\ fnYear \in Elems(yearsByBand)

C5_Witness ==
  /\ fnPc = "picked"
  /\ Len(priceBands) = 4
  /\ priceBands[2] <= budget
  /\ budget < priceBands[3]
  /\ fnYear = yearsByBand[2]
  /\ fnYear # yearsByBand[1]

\* C6: affordabilityScore is 0 exactly when min(priceBands) <= budget <=
\* max(priceBands), min - budget below the range, budget - max above it, and
\* never negative.
C6_Affordability ==
  fnPc = "scored" =>
    LET lo == SetMin(Elems(priceBands))
        hi == SetMax(Elems(priceBands))
    IN /\ fnScore = 0 <=> (lo <= budget /\ budget <= hi)
       /\ budget < lo => fnScore = lo - budget
       /\ budget > hi => fnScore = budget - hi
       /\ fnScore >= 0

C6_Witness ==
  /\ fnPc = "scored"
  /\ budget = priceBands[1]
  /\ Len(priceBands) > 1
  /\ fnScore = 0

C8_ExactTag ==
  (pc = "responded" /\ ~relaxed) =>
    LET tagged == {i \in 1..Len(CARS) :
                     /\ SeatFilterPrimary(CARS[i], wantSeats)
                     /\ wantType \in Elems(CARS[i].types)}
        seated == {i \in 1..Len(CARS) : SeatFilterPrimary(CARS[i], wantSeats)}
    IN /\ body.type.t = "string" => EqualIgnoringCase(wantType, body.type.v)
       /\ \A k \in 1..Len(wantType) : wantType[k] \notin Elems(UpperChars)
       /\ wantType # <<>> =>
            /\ \A k \in 1..Len(results) :
                 /\ wantType \in Elems(results[k].typeMatches)
                 /\ CatalogIndex(results[k].model) \in tagged
            /\ Len(results) = Min(5, Cardinality(tagged))
       /\ wantType = <<>> =>
            /\ \A k \in 1..Len(results) : CatalogIndex(results[k].model) \in seated
            /\ Len(results) = Min(5, Cardinality(seated))

C8_Witness ==
  /\ pc = "responded"
  /\ ~relaxed
  /\ body = [seats |-> Num(N(5)), budget |-> Num(N(30000)),
             type |-> Str(<<"L","u","x","u","r","y">>)]
  /\ \E k \in 1..Len(results) :
       results[k].model = "Mercedes-Benz S-Class" /\ luxury \in Elems(results[k].typeMatches)
  /\ \E k \in 1..Len(results) :
       results[k].model = "Tesla Model S" /\ luxury \in Elems(results[k].typeMatches)

\* C9: results of equal score are in catalog order, and when the cut at 5
\* falls inside a group of equal scores the ones kept are the earliest of
\* the catalog.
C9_StableTies ==
  pc = "responded" =>
    /\ \A j \in 1..Len(results) : \A k \in (j + 1)..Len(results) :
         results[j].score = results[k].score =>
           CatalogIndex(results[j].model) < CatalogIndex(results[k].model)
    /\ \A i \in Survivors :
         ~Returned(i) =>
           \A k \in 1..Len(results) :
             results[k].score = PassScore(CARS[i]) =>
               CatalogIndex(results[k].model) < i

C9_Witness ==
  /\ pc = "responded"
  /\ Len(results) = 5
  /\ results[4].score = results[5].score
  /\ \E i \in Survivors : ~Returned(i) /\ PassScore(CARS[i]) = results[5].score

\* C10: every result has minSeats >= wantSeats, so its seat term is 0 and its
\* score is affordabilityScore(priceBands, wantBudget), plus 10000 when
\* relaxed = true.
C10_SeatTermZero ==
  pc = "responded" =>
    \A k \in 1..Len(results) :
      /\ N(results[k].seats) >= wantSeats
      /\ results[k].score =
           affordabilityScore(NumSeq(RecordOf(results[k]).priceBands), wantBudget)
             + (IF relaxed THEN N(10000) ELSE 0)

====
